---------------------------- MODULE Spec2Model ----------------------------
(***************************************************************************)
(* A model of src/app.py (HoopChartsAPI): the Flask handlers of the shot   *)
(* chart, team, logo and games endpoints, the pyplot state they share, and *)
(* the pure helpers lighten_color and combine_game_data.                   *)
(*                                                                         *)
(* Specifications:                                                         *)
(*   Spec       /shot_chart requests served by concurrent threads          *)
(*   SpecSeq    /shot_chart requests served one at a time                  *)
(*   SpecRender one /shot_chart request over every small shot frame        *)
(*   SpecTeam   /team/<abbreviation> and logo requests                     *)
(*   SpecColor  lighten_color over a grid of colours and amounts           *)
(*   SpecGames  combine_game_data over every short list of game rows       *)
(***************************************************************************)
EXTENDS Integers, Sequences, FiniteSets, TLC

VARIABLES
    pc,        \* per request: position in get_shot_chart / generate_shot_chart
    query,     \* per request: the query string of the HTTP request being handled
    args,      \* per request: the four locals player_id .. season_type_all_star
    upstream,  \* per request: the call to the stats provider and its answer
    frame,     \* per request: local shot_dataframe
    made,      \* per request: local made_shot
    missed,    \* per request: local missed_shot
    fig,       \* per request: local fig (a figure number)
    figs,      \* pyplot's registry of figures, by figure number
    curFig,    \* pyplot's current figure (module state shared by all threads)
    files,     \* the working directory: file name -> content
    resp       \* per request: the HTTP response

chartVars == <<pc, query, args, upstream, frame, made, missed, fig, figs, curFig, files, resp>>

VARIABLES
    tpc,        \* per team request: position in its handler
    treq,       \* per team request: endpoint and path parameters
    team,       \* per team request: local team
    logoUrl,    \* per team request: local logo_url
    cdn,        \* per team request: what cdn.nba.com answered to requests.get
    converted,  \* per team request: the text cairosvg.svg2png was called on
    tresp       \* per team request: the HTTP response

teamVars == <<tpc, treq, team, logoUrl, cdn, converted, tresp>>

VARIABLES
    colorSpec,  \* lighten_color's argument color_name
    amount,     \* lighten_color's argument amount
    lightened   \* what the call gave: an RGB triple or the exception raised

colorVars == <<colorSpec, amount, lightened>>

VARIABLES
    data,       \* combine_game_data's argument: the rows of the games frame
    combined    \* what combine_game_data returned

gamesVars == <<data, combined>>

nonChartVars == <<teamVars, colorVars, gamesVars>>
nonTeamVars  == <<chartVars, colorVars, gamesVars>>
nonColorVars == <<chartVars, teamVars, gamesVars>>
nonGamesVars == <<chartVars, teamVars, colorVars>>

vars == <<chartVars, teamVars, colorVars, gamesVars>>

-----------------------------------------------------------------------------
(* Bounds *)

\* number of /shot_chart requests of a behaviour
MaxRequests == 3
\* number of requests the host serves at the same time under Spec
MaxParallel == 2
\* number of rows of a fetched shot frame under SpecRender
MaxShots == 2
\* number of team and logo requests of a behaviour
MaxTeamRequests == 2
\* lighten_color is tried on the channel values and amounts k/Grid, k in 0..Grid
Grid == 2
\* number of rows of the games frame given to combine_game_data
MaxRows == 3

Requests == 1..MaxRequests

-----------------------------------------------------------------------------
(* Values *)

\* request.args.get(...) of a parameter that is not in the query string
None == "<None>"

Players == {"203076", "2544"}
Games   == {"0042200233"}
Teams   == {"1610612747"}
Seasons == {"Playoffs", "Regular Season"}

\* the query strings a client sends: each parameter absent, empty or given
Queries ==
    [player_id : Players \cup {None},
     game_id_nullable : Games \cup {""},
     team_id : Teams \cup {None},
     season_type_all_star : Seasons \cup {""}]

NoArgs   == [player_id |-> None, game_id_nullable |-> None,
             team_id |-> None, season_type_all_star |-> None]
NoQuery  == NoArgs
NoFigure == 0
NoShots  == <<>>
NoCall   == [params |-> NoArgs, answer |-> "none"]

\* Python truthiness of a str-or-None value
Truthy(v) == v # None /\ v # ""

\* a check that forgets the last parameter
AllPresentButSeason(q) ==
    /\ Truthy(q.player_id)
    /\ Truthy(q.game_id_nullable)
    /\ Truthy(q.team_id)

\* app.py:226  all([player_id, game_id_nullable, team_id, season_type_all_star])
AllPresent(q) ==
    /\ Truthy(q.player_id)
    /\ Truthy(q.game_id_nullable)
    /\ Truthy(q.team_id)
    /\ Truthy(q.season_type_all_star)

\* app.py:28, 284-286  SHOT_CHART_FILENAME_TEMPLATE.format(...)
ShotChartFilename(a) ==
    a.game_id_nullable \o "_" \o a.team_id \o "_" \o a.player_id \o "_shot_chart.png"

Shot(x, y, flag) == [LOC_X |-> x, LOC_Y |-> y, SHOT_MADE_FLAG |-> flag]

\* app.py:243-251  the rows stats.nba.com holds for a request tuple; the provider
\* answers as a function of the tuple, and distinct tuples have distinct rows
ShotData(a) ==
    IF a.player_id = "203076"
    THEN IF a.season_type_all_star = "Playoffs"
         THEN <<Shot(0, 0, 1), Shot(-220, 50, 0)>>
         ELSE <<>>
    ELSE IF a.season_type_all_star = "Playoffs"
         THEN <<Shot(400, 500, 0), Shot(10, 20, 2), Shot(5, 5, 1)>>
         ELSE <<Shot(-15, 250, 1)>>

\* the frames of at most MaxShots rows, over in-range and out-of-range
\* coordinates and the flags 0, 1 and another value
ShotRows == {Shot(c[1], c[2], f) : c \in {<<0, 0>>, <<400, 500>>}, f \in {0, 1, 2}}
ShotFrames == UNION {[1..n -> ShotRows] : n \in 0..MaxShots}

\* app.py:253-254  shot_dataframe[shot_dataframe.SHOT_MADE_FLAG == flag]
RECURSIVE SelectFlag(_, _)
SelectFlag(rows, flag) ==
    IF rows = <<>> THEN <<>>
    ELSE IF Head(rows).SHOT_MADE_FLAG = flag
         THEN <<Head(rows)>> \o SelectFlag(Tail(rows), flag)
         ELSE SelectFlag(Tail(rows), flag)

\* every row that is not a made shot taken as missed
RECURSIVE MissedShotNotMade(_)
MissedShotNotMade(rows) ==
    IF rows = <<>> THEN <<>>
    ELSE IF Head(rows).SHOT_MADE_FLAG # 1
         THEN <<Head(rows)>> \o MissedShotNotMade(Tail(rows))
         ELSE MissedShotNotMade(Tail(rows))

MadeShot(rows)   == SelectFlag(rows, 1)
MissedShot(rows) == SelectFlag(rows, 0)

\* the (LOC_X, LOC_Y) columns of a frame
RECURSIVE Points(_)
Points(rows) ==
    IF rows = <<>> THEN <<>>
    ELSE <<<<Head(rows).LOC_X, Head(rows).LOC_Y>>>> \o Points(Tail(rows))

\* app.py:378-393  court_elements, in the order they are added
CourtElements ==
    <<"outer_lines", "hoop", "backboard", "outer_box", "inner_box",
      "top_free_throw", "bottom_free_throw", "restricted", "corner_three_a",
      "corner_three_b", "three_arc", "center_outer_arc", "center_inner_arc",
      "outer_lines2">>

\* a figure as plt.figure() makes it, with the axes gca() gives it
BlankFigure ==
    [facecolor |-> "white", patches |-> <<>>, collections |-> <<>>,
     xlim |-> <<0, 1>>, xauto |-> TRUE, yinverted |-> FALSE, axison |-> TRUE]

\* a figure call that goes back to the figure there is, as plt.figure(1) does
PltFigureReuse(fs) == IF fs = <<>> THEN Append(fs, BlankFigure) ELSE fs

\* app.py:256  plt.figure(figsize=(12, 10)): always a new figure
PltFigure(fs) == Append(fs, BlankFigure)

\* the limits given in ascending order
XLimAscending(f) == [f EXCEPT !.xlim = <<-300, 300>>, !.xauto = FALSE]

\* app.py:278  plt.xlim(300, -300): left 300, right -300, autoscaling off
XLim(f) == [f EXCEPT !.xlim = <<300, -300>>, !.xauto = FALSE]

\* app.py:279  Axes.invert_xaxis(): set_inverted(not get_inverted())
InvertXAxis(f) ==
    LET lo == IF f.xlim[1] <= f.xlim[2] THEN f.xlim[1] ELSE f.xlim[2]
        hi == IF f.xlim[1] <= f.xlim[2] THEN f.xlim[2] ELSE f.xlim[1]
        inverted == f.xlim[2] < f.xlim[1]
    IN  [f EXCEPT !.xlim = IF ~inverted THEN <<hi, lo>> ELSE <<lo, hi>>]

\* app.py:280  Axes.invert_yaxis()
InvertYAxis(f) == [f EXCEPT !.yinverted = ~f.yinverted]

\* app.py:287-289  what savefig writes: the figure drawn on a transparent ground
Rendering(f) == [f EXCEPT !.facecolor = "transparent"]

\* an empty working directory
NoFiles == [n \in {} |-> BlankFigure]

\* open(name, "wb").write(content): the file is created or overwritten
WriteFile(fs, name, content) ==
    [n \in DOMAIN fs \cup {name} |-> IF n = name THEN content ELSE fs[n]]

Response(status, body) == [status |-> status, body |-> body]
NoResponse == Response(0, "")

-----------------------------------------------------------------------------
(* /api/nba/shot_chart *)

InFlight == {r \in Requests : pc[r] \notin {"idle", "done"}}

ChartInit ==
    /\ pc = [r \in Requests |-> "idle"]
    /\ query = [r \in Requests |-> NoQuery]
    /\ args = [r \in Requests |-> NoArgs]
    /\ upstream = [r \in Requests |-> NoCall]
    /\ frame = [r \in Requests |-> NoShots]
    /\ made = [r \in Requests |-> NoShots]
    /\ missed = [r \in Requests |-> NoShots]
    /\ fig = [r \in Requests |-> NoFigure]
    /\ figs = <<>>
    /\ curFig = NoFigure
    /\ files = NoFiles
    /\ resp = [r \in Requests |-> NoResponse]

\* the HTTP host hands a request to a thread; it serves at most limit requests
\* at once
Arrive(r, limit) ==
    /\ pc[r] = "idle"
    /\ Cardinality(InFlight) < limit
    /\ \E q \in Queries : query' = [query EXCEPT ![r] = q]
    /\ pc' = [pc EXCEPT ![r] = "recv"]
    /\ UNCHANGED <<args, upstream, frame, made, missed, fig, figs, curFig, files, resp>>
    /\ UNCHANGED nonChartVars

\* the handler returns: its locals and the request object are gone
Return(r, response) ==
    /\ pc' = [pc EXCEPT ![r] = "done"]
    /\ resp' = [resp EXCEPT ![r] = response]
    /\ query' = [query EXCEPT ![r] = NoQuery]
    /\ args' = [args EXCEPT ![r] = NoArgs]
    /\ frame' = [frame EXCEPT ![r] = NoShots]
    /\ made' = [made EXCEPT ![r] = NoShots]
    /\ missed' = [missed EXCEPT ![r] = NoShots]

\* app.py:221-227  get_shot_chart up to the parameter check
GetShotChart(r) ==
    /\ pc[r] = "recv"
    /\ IF ~AllPresent(query[r])
       THEN /\ Return(r, Response(400, "Missing required parameters"))
            /\ UNCHANGED <<upstream, fig, figs, curFig, files>>
            /\ UNCHANGED nonChartVars
       ELSE /\ args' = [args EXCEPT ![r] = query[r]]
            /\ pc' = [pc EXCEPT ![r] = "fetch"]
            /\ UNCHANGED <<query, upstream, frame, made, missed, fig, figs, curFig, files, resp>>
            /\ UNCHANGED nonChartVars

\* app.py:243-254  the provider answers with rows; the frame is split by
\* SHOT_MADE_FLAG
FetchShots(r, rows) ==
    /\ pc[r] = "fetch"
    /\ upstream' = [upstream EXCEPT ![r] = [params |-> args[r], answer |-> "ok"]]
    /\ frame' = [frame EXCEPT ![r] = rows]
    /\ made' = [made EXCEPT ![r] = MadeShot(rows)]
    /\ missed' = [missed EXCEPT ![r] = MissedShot(rows)]
    /\ pc' = [pc EXCEPT ![r] = "figure"]
    /\ UNCHANGED <<query, args, fig, figs, curFig, files, resp>>
    /\ UNCHANGED nonChartVars

\* the provider holding the rows of ShotData
Fetch(r) == FetchShots(r, ShotData(args[r]))

\* the provider holding any frame
FetchAny(r) == \E rows \in ShotFrames : FetchShots(r, rows)

\* a fetch error swallowed: the chart is drawn from an empty frame
FetchErrorDegraded(r) ==
    /\ pc[r] = "fetch"
    /\ upstream' = [upstream EXCEPT ![r] = [params |-> args[r], answer |-> "error"]]
    /\ pc' = [pc EXCEPT ![r] = "figure"]
    /\ UNCHANGED <<query, args, frame, made, missed, fig, figs, curFig, files, resp>>
    /\ UNCHANGED nonChartVars

\* app.py:243-251  the fetch raises; nothing catches it and Flask answers 500
FetchError(r) ==
    /\ pc[r] = "fetch"
    /\ upstream' = [upstream EXCEPT ![r] = [params |-> args[r], answer |-> "error"]]
    /\ Return(r, Response(500, "Internal Server Error"))
    /\ UNCHANGED <<fig, figs, curFig, files>>
    /\ UNCHANGED nonChartVars

\* app.py:256-257  fig = plt.figure(...); fig.patch.set_facecolor("black")
NewFigure(r) ==
    /\ pc[r] = "figure"
    /\ LET fs == PltFigure(figs)
           n  == Len(fs)
       IN  /\ n > 0
           /\ figs' = [fs EXCEPT ![n].facecolor = "black"]
           /\ curFig' = n
           /\ fig' = [fig EXCEPT ![r] = n]
    /\ pc' = [pc EXCEPT ![r] = "court"]
    /\ UNCHANGED <<query, args, upstream, frame, made, missed, files, resp>>
    /\ UNCHANGED nonChartVars

\* app.py:309  plt.gca(): the axes of pyplot's current figure
Gca == figs[curFig]

\* a pyplot call of request r: it leaves the current figure as drawn
OnCurrentAxes(r, at, drawn, next) ==
    /\ pc[r] = at
    /\ figs' = [figs EXCEPT ![curFig] = drawn]
    /\ pc' = [pc EXCEPT ![r] = next]
    /\ UNCHANGED <<query, args, upstream, frame, made, missed, fig, curFig, files, resp>>
    /\ UNCHANGED nonChartVars

\* app.py:258, 306-399  draw_court(outer_lines=True): ax = plt.gca(); add_patch each
DrawCourt(r) ==
    OnCurrentAxes(r, "court", [Gca EXCEPT !.patches = Gca.patches \o CourtElements],
                  "missed")

\* app.py:259-267  plt.scatter(missed_shot.LOC_X, missed_shot.LOC_Y, marker="x")
ScatterMissed(r) ==
    OnCurrentAxes(r, "missed",
                  [Gca EXCEPT !.collections =
                      Append(Gca.collections, [marker |-> "x", points |-> Points(missed[r])])],
                  "made")

\* app.py:268-277  plt.scatter(made_shot.LOC_X, made_shot.LOC_Y, marker="o")
ScatterMade(r) ==
    OnCurrentAxes(r, "made",
                  [Gca EXCEPT !.collections =
                      Append(Gca.collections, [marker |-> "o", points |-> Points(made[r])])],
                  "xlim")

\* app.py:278
SetXLim(r) == OnCurrentAxes(r, "xlim", XLim(Gca), "invx")

\* app.py:279
InvertX(r) == OnCurrentAxes(r, "invx", InvertXAxis(Gca), "invy")

\* app.py:280
InvertY(r) == OnCurrentAxes(r, "invy", InvertYAxis(Gca), "axisoff")

\* app.py:281  plt.axis("off")
AxisOff(r) == OnCurrentAxes(r, "axisoff", [Gca EXCEPT !.axison = FALSE], "save")

\* app.py:284-290  plt.savefig(shot_chart_filename, ...): the current figure
SaveFig(r) ==
    /\ pc[r] = "save"
    /\ files' = WriteFile(files, ShotChartFilename(args[r]), Rendering(figs[curFig]))
    /\ pc' = [pc EXCEPT ![r] = "send"]
    /\ UNCHANGED <<query, args, upstream, frame, made, missed, fig, figs, curFig, resp>>
    /\ UNCHANGED nonChartVars

\* app.py:232  send_file(shot_chart_filename, mimetype="image/png")
SendFile(r) ==
    /\ pc[r] = "send"
    /\ Return(r, Response(200, files[ShotChartFilename(args[r])]))
    /\ UNCHANGED <<upstream, fig, figs, curFig, files>>
    /\ UNCHANGED nonChartVars

Handle(r) ==
    \/ GetShotChart(r)
    \/ FetchError(r)
    \/ NewFigure(r)
    \/ DrawCourt(r)
    \/ ScatterMissed(r)
    \/ ScatterMade(r)
    \/ SetXLim(r)
    \/ InvertX(r)
    \/ InvertY(r)
    \/ AxisOff(r)
    \/ SaveFig(r)
    \/ SendFile(r)

-----------------------------------------------------------------------------
(* /api/nba/team/<abbreviation> and /api/nba/images/logos/team/<theme>/<abbreviation> *)

TeamRequests == 1..MaxTeamRequests

\* nba_api.stats.static.teams: two of the teams
NBATeams ==
    {[id |-> "1610612747", abbreviation |-> "LAL", full_name |-> "Los Angeles Lakers"],
     [id |-> "1610612738", abbreviation |-> "BOS", full_name |-> "Boston Celtics"]}

NoTeam == [id |-> "", abbreviation |-> "", full_name |-> ""]

\* str.upper() on the path segments a client sends
Upper(str) ==
    CASE str \in {"LAL", "lal"} -> "LAL"
      [] str \in {"BOS"} -> "BOS"
      [] str \in {"light", "Light"} -> "LIGHT"
      [] str \in {"dark"} -> "DARK"
      [] str \in {"solid"} -> "SOLID"
      [] OTHER -> str

\* str.lower() on the path segments a client sends
Lower(str) ==
    CASE str \in {"light", "Light"} -> "light"
      [] str \in {"dark"} -> "dark"
      [] OTHER -> str

\* s[0] of the upper-cased themes
FirstLetter(str) ==
    CASE str = "LIGHT" -> "L"
      [] str = "DARK" -> "D"
      [] str = "SOLID" -> "S"
      [] OTHER -> str

Abbreviations == {"lal", "BOS", "NYK"}
Themes == {"Light", "dark", "solid"}

\* teams.find_team_by_abbreviation: the team whose abbreviation matches, ignoring
\* case, or None
FindTeamByAbbreviation(abbreviation) ==
    IF \E t \in NBATeams : t.abbreviation = Upper(abbreviation)
    THEN CHOOSE t \in NBATeams : t.abbreviation = Upper(abbreviation)
    ELSE NoTeam

\* a lookup result that is never taken as missing
NotTeamNever(t) == FALSE

\* app.py:51, 91  not team
NotTeam(t) == t = NoTeam

\* app.py:55  letter
Letter(theme) ==
    IF Lower(theme) \in {"light", "dark"} THEN FirstLetter(Upper(theme)) ELSE "L"

\* app.py:57  logo_url
LogoUrl(team_id, letter) ==
    "https://cdn.nba.com/logos/nba/" \o team_id \o "/primary/" \o letter \o "/logo.svg"

\* what requests.get(logo_url) meets: a transport error, or an HTTP response
NoReply == [kind |-> "none", status |-> 0, text |-> ""]
CdnReplies ==
    {[kind |-> "ConnectionError", status |-> 0, text |-> ""],
     [kind |-> "response", status |-> 200, text |-> "<svg/>"],
     [kind |-> "response", status |-> 200, text |-> "<svg"],
     [kind |-> "response", status |-> 404, text |-> "Not Found"],
     [kind |-> "response", status |-> 503, text |-> "<svg/>"]}

\* requests.get(...) or response.raise_for_status() raises a RequestException
RaisesRequestException(reply) ==
    reply.kind # "response" \/ reply.status >= 400

\* cairosvg.svg2png raises on text that is no SVG document
IsSvg(text) == text = "<svg/>"

NotConverted == "<not called>"

TResponse(status, mimetype, body) ==
    [status |-> status, mimetype |-> mimetype, body |-> body]
NoTResponse == TResponse(0, "", "")

\* jsonify({"error": message}), status
JsonError(status, message) ==
    TResponse(status, "application/json", "{\"error\": \"" \o message \o "\"}")

TeamInit ==
    /\ tpc = [r \in TeamRequests |-> "idle"]
    /\ treq = [r \in TeamRequests |-> [endpoint |-> "", theme |-> "", abbreviation |-> ""]]
    /\ team = [r \in TeamRequests |-> NoTeam]
    /\ logoUrl = [r \in TeamRequests |-> ""]
    /\ cdn = [r \in TeamRequests |-> NoReply]
    /\ converted = [r \in TeamRequests |-> NotConverted]
    /\ tresp = [r \in TeamRequests |-> NoTResponse]

TReturn(r, response) ==
    /\ tpc' = [tpc EXCEPT ![r] = "done"]
    /\ tresp' = [tresp EXCEPT ![r] = response]

\* a GET of /api/nba/team/<abbreviation>
TeamArrive(r) ==
    /\ tpc[r] = "idle"
    /\ \E a \in Abbreviations :
           treq' = [treq EXCEPT ![r] = [endpoint |-> "team", theme |-> "", abbreviation |-> a]]
    /\ tpc' = [tpc EXCEPT ![r] = "team"]
    /\ UNCHANGED <<team, logoUrl, cdn, converted, tresp>>
    /\ UNCHANGED nonTeamVars

\* a GET of /api/nba/images/logos/team/<theme>/<abbreviation>
LogoArrive(r) ==
    /\ tpc[r] = "idle"
    /\ \E a \in Abbreviations, th \in Themes :
           treq' = [treq EXCEPT ![r] = [endpoint |-> "logo", theme |-> th, abbreviation |-> a]]
    /\ tpc' = [tpc EXCEPT ![r] = "logo"]
    /\ UNCHANGED <<team, logoUrl, cdn, converted, tresp>>
    /\ UNCHANGED nonTeamVars

\* app.py:87-94  get_team_by_abbreviation
GetTeamByAbbreviation(r) ==
    /\ tpc[r] = "team"
    /\ LET t == FindTeamByAbbreviation(treq[r].abbreviation)
       IN  /\ team' = [team EXCEPT ![r] = t]
           /\ IF ~NotTeam(t)
              THEN TReturn(r, TResponse(200, "application/json", t.full_name))
              ELSE TReturn(r, JsonError(404, "Team not found"))
    /\ UNCHANGED <<treq, logoUrl, cdn, converted>>
    /\ UNCHANGED nonTeamVars

\* app.py:48-57  get_team_logo_light: the lookup and the logo URL
LogoLookup(r) ==
    /\ tpc[r] = "logo"
    /\ LET t == FindTeamByAbbreviation(treq[r].abbreviation)
       IN  /\ team' = [team EXCEPT ![r] = t]
           /\ IF NotTeam(t)
              THEN /\ TReturn(r, JsonError(404, "Team not found"))
                   /\ UNCHANGED logoUrl
              ELSE /\ logoUrl' = [logoUrl EXCEPT ![r] = LogoUrl(t.id, Letter(treq[r].theme))]
                   /\ tpc' = [tpc EXCEPT ![r] = "fetch"]
                   /\ UNCHANGED tresp
    /\ UNCHANGED <<treq, cdn, converted>>
    /\ UNCHANGED nonTeamVars

\* a fetch that does not call raise_for_status: any HTTP response goes on
LogoFetchAnyStatus(r) ==
    /\ tpc[r] = "fetch"
    /\ \E reply \in CdnReplies :
           /\ cdn' = [cdn EXCEPT ![r] = reply]
           /\ IF reply.kind # "response"
              THEN TReturn(r, JsonError(500, "Error fetching logo"))
              ELSE /\ tpc' = [tpc EXCEPT ![r] = "convert"]
                   /\ UNCHANGED tresp
    /\ UNCHANGED <<treq, team, logoUrl, converted>>
    /\ UNCHANGED nonTeamVars

\* app.py:60-64  requests.get(logo_url); response.raise_for_status()
LogoFetch(r) ==
    /\ tpc[r] = "fetch"
    /\ \E reply \in CdnReplies :
           /\ cdn' = [cdn EXCEPT ![r] = reply]
           /\ IF RaisesRequestException(reply)
              THEN TReturn(r, JsonError(500, "Error fetching logo"))
              ELSE /\ tpc' = [tpc EXCEPT ![r] = "convert"]
                   /\ UNCHANGED tresp
    /\ UNCHANGED <<treq, team, logoUrl, converted>>
    /\ UNCHANGED nonTeamVars

\* app.py:67-82  cairosvg.svg2png(bytestring=response.text); send_file(...)
LogoConvert(r) ==
    /\ tpc[r] = "convert"
    /\ converted' = [converted EXCEPT ![r] = cdn[r].text]
    /\ IF IsSvg(cdn[r].text)
       THEN TReturn(r, TResponse(200, "image/png", treq[r].abbreviation \o "_logo.png"))
       ELSE TReturn(r, JsonError(500, "Error converting SVG to PNG"))
    /\ UNCHANGED <<treq, team, logoUrl, cdn>>
    /\ UNCHANGED nonTeamVars

NextTeam ==
    \E r \in TeamRequests :
        \/ TeamArrive(r)
        \/ LogoArrive(r)
        \/ GetTeamByAbbreviation(r)
        \/ LogoLookup(r)
        \/ LogoFetch(r)
        \/ LogoConvert(r)

-----------------------------------------------------------------------------
(* lighten_color.  Numbers are exact fractions <<numerator, denominator>> in *)
(* lowest terms with a positive denominator.                               *)

RECURSIVE GCD(_, _)
GCD(a, b) == IF b = 0 THEN a ELSE GCD(b, a % b)

Abs(n) == IF n < 0 THEN -n ELSE n

Frac(n, d) ==
    LET g == GCD(Abs(n), Abs(d))
        sgn == IF d < 0 THEN -1 ELSE 1
    IN  <<(sgn * n) \div g, (sgn * d) \div g>>

Whole(n) == <<n, 1>>
Add(a, b) == Frac(a[1] * b[2] + b[1] * a[2], a[2] * b[2])
Sub(a, b) == Frac(a[1] * b[2] - b[1] * a[2], a[2] * b[2])
Mul(a, b) == Frac(a[1] * b[1], a[2] * b[2])
\* b # 0
Div(a, b) == Frac(a[1] * b[2], a[2] * b[1])
Lt(a, b) == a[1] * b[2] < b[1] * a[2]
Le(a, b) == a[1] * b[2] <= b[1] * a[2]
\* Python's x % 1.0, in [0, 1)
Mod1(a) == Frac(a[1] % a[2], a[2])
Max2(a, b) == IF Lt(a, b) THEN b ELSE a
Min2(a, b) == IF Lt(b, a) THEN b ELSE a

Raised(exception) == [ok |-> FALSE, error |-> exception, value |-> <<>>]
Returned(value) == [ok |-> TRUE, error |-> "", value |-> value]

Name(n) == [kind |-> "name", name |-> n, rgb |-> <<>>]
Rgb(r, g, b) == [kind |-> "rgb", name |-> "", rgb |-> <<r, g, b>>]

\* matplotlib's named colours used by app.py (names are matched ignoring case)
NamedColors == {"Red", "Green", "White"}
NamedRgb(n) ==
    CASE n = "Red" -> <<Whole(1), Whole(0), Whole(0)>>
      [] n = "Green" -> <<Whole(0), Frac(128, 255), Whole(0)>>
      [] n = "White" -> <<Whole(1), Whole(1), Whole(1)>>

InUnitRange(x) == Le(Whole(0), x) /\ Le(x, Whole(1))

\* app.py:295  mc.to_rgb(color_name): ValueError on an unknown name and on a
\* triple with a channel outside [0, 1]
ToRgb(c) ==
    IF c.kind = "name"
    THEN IF c.name \in NamedColors THEN Returned(NamedRgb(c.name)) ELSE Raised("ValueError")
    ELSE IF \A i \in 1..3 : InUnitRange(c.rgb[i]) THEN Returned(c.rgb) ELSE Raised("ValueError")

\* colorsys.rgb_to_hls(r, g, b)
RgbToHls(r, g, b) ==
    LET maxc == Max2(r, Max2(g, b))
        minc == Min2(r, Min2(g, b))
        sumc == Add(maxc, minc)
        rangec == Sub(maxc, minc)
        l == Div(sumc, Whole(2))
        den == IF Le(l, Frac(1, 2)) THEN sumc ELSE Sub(Sub(Whole(2), maxc), minc)
        s == Div(rangec, den)
        rc == Div(Sub(maxc, r), rangec)
        gc == Div(Sub(maxc, g), rangec)
        bc == Div(Sub(maxc, b), rangec)
        h == IF r = maxc THEN Sub(bc, gc)
             ELSE IF g = maxc THEN Sub(Add(Whole(2), rc), bc)
             ELSE Sub(Add(Whole(4), gc), rc)
    IN  IF minc = maxc THEN Returned(<<Whole(0), l, Whole(0)>>)
        ELSE IF den = Whole(0) THEN Raised("ZeroDivisionError")
        ELSE Returned(<<Mod1(Div(h, Whole(6))), l, s>>)

\* colorsys._v(m1, m2, hue)
V(m1, m2, hue0) ==
    LET hue == Mod1(hue0)
    IN  IF Lt(hue, Frac(1, 6)) THEN Add(m1, Mul(Mul(Sub(m2, m1), hue), Whole(6)))
        ELSE IF Lt(hue, Frac(1, 2)) THEN m2
        ELSE IF Lt(hue, Frac(2, 3))
             THEN Add(m1, Mul(Mul(Sub(m2, m1), Sub(Frac(2, 3), hue)), Whole(6)))
        ELSE m1

\* colorsys.hls_to_rgb(h, l, s)
HlsToRgb(h, l, s) ==
    LET m2 == IF Le(l, Frac(1, 2)) THEN Mul(l, Add(Whole(1), s))
              ELSE Sub(Add(l, s), Mul(l, s))
        m1 == Sub(Mul(Whole(2), l), m2)
    IN  IF s = Whole(0) THEN <<l, l, l>>
        ELSE <<V(m1, m2, Add(h, Frac(1, 3))), V(m1, m2, h), V(m1, m2, Sub(h, Frac(1, 3)))>>

\* the lightness moved towards 1 by amount
NewLightnessAdded(amt, l) == Add(l, Mul(amt, Sub(Whole(1), l)))

\* app.py:301  1 - amount * (1 - color_hls[1])
NewLightness(amt, l) == Sub(Whole(1), Mul(amt, Sub(Whole(1), l)))

\* app.py:293-303  lighten_color(color_name, amount)
LightenColor(c, amt) ==
    LET resolved == ToRgb(c)
        \* except ValueError: color_rgb = color_name
        color_rgb == IF resolved.ok THEN resolved.value ELSE c.rgb
        \* rgb_to_hls(*color_rgb) of a str: its characters do not add up to a number
        hls == IF ~resolved.ok /\ c.kind = "name" THEN Raised("TypeError")
               ELSE RgbToHls(color_rgb[1], color_rgb[2], color_rgb[3])
    IN  IF ~hls.ok THEN hls
        ELSE Returned(HlsToRgb(hls.value[1], NewLightness(amt, hls.value[2]), hls.value[3]))

GridValues == {Frac(k, Grid) : k \in 0..Grid}

\* the colour specs tried: the names app.py uses, a name matplotlib does not
\* know, the triples of the grid, and triples with a channel outside [0, 1]
ColorSpecs ==
    {Name(n) : n \in NamedColors \cup {"Rde"}}
        \cup {Rgb(r, g, b) : r \in GridValues, g \in GridValues, b \in GridValues}
        \cup {Rgb(Whole(2), Whole(0), Whole(0)), Rgb(Whole(2), Whole(2), Whole(2))}

\* the amounts tried: the grid, and those of app.py:263, 273, 306
Amounts == GridValues \cup {Frac(4, 5), Frac(7, 10)}

NotCalled == Raised("<not called>")

ColorIdle ==
    /\ colorSpec = Name("White")
    /\ amount = Whole(1)
    /\ lightened = NotCalled

ColorInit ==
    /\ colorSpec \in ColorSpecs
    /\ amount \in Amounts
    /\ lightened = NotCalled

\* a call lighten_color(colorSpec, amount)
CallLightenColor ==
    /\ lightened = NotCalled
    /\ lightened' = LightenColor(colorSpec, amount)
    /\ UNCHANGED <<colorSpec, amount>>
    /\ UNCHANGED nonColorVars

-----------------------------------------------------------------------------
(* /api/nba/games/<date>: combine_game_data *)

\* app.py:157-208  the columns copied once for the home and once for the away team
SideFields ==
    {"AST", "BLK", "DREB", "FG3A", "FG3M", "FG3_PCT", "FGA", "FGM", "FG_PCT",
     "FTA", "FTM", "FT_PCT", "MIN", "OREB", "PF", "PLUS_MINUS", "PTS", "REB",
     "STL", "TEAM_ABBREVIATION", "TEAM_ID", "TEAM_NAME", "TOV", "WL"}

\* the columns of a row of the LeagueGameFinder frame
InputFields == SideFields \cup {"SEASON_ID", "GAME_ID", "GAME_DATE", "MATCHUP"}

\* the keys of a combined row
CombinedFields ==
    {"HOME_" \o f : f \in SideFields} \cup {"AWAY_" \o f : f \in SideFields}
        \cup {"GAME_DATE", "GAME_ID", "MATCHUP", "SEASON_ID"}

GameIds == {"0022300001", "0022300002"}
TeamAbbreviations == {"LAL", "BOS"}
Matchups == {"LAL vs. BOS", "BOS @ LAL", "LAL vs. @ BOS", "TBD"}

\* "vs." in game["MATCHUP"]
ContainsVs(matchup) == matchup \in {"LAL vs. BOS", "LAL vs. @ BOS"}
\* "@" in game["MATCHUP"]
ContainsAt(matchup) == matchup \in {"BOS @ LAL", "LAL vs. @ BOS"}

\* a row of the frame: every other column holds a value that names its team
\* and column
GameRow(id, matchup, abbreviation) ==
    [f \in InputFields |->
        CASE f = "GAME_ID" -> id
          [] f = "MATCHUP" -> matchup
          [] f = "TEAM_ABBREVIATION" -> abbreviation
          [] OTHER -> abbreviation \o "." \o f]

GameRows ==
    {GameRow(id, m, a) : id \in GameIds, m \in Matchups, a \in TeamAbbreviations}

GameLists == UNION {[1..n -> GameRows] : n \in 0..MaxRows}

\* the dict {} and a dict holding a row
EmptyDict == [empty |-> TRUE, row |-> [f \in InputFields |-> None]]
DictOf(row) == [empty |-> FALSE, row |-> row]

\* dict.get(key, default)
Get(d, key, default) == IF d.empty THEN default ELSE d.row[key]

\* the two branches in the other order: "@" is looked at first
SideAwayFirst(game) ==
    IF ContainsAt(game["MATCHUP"]) THEN "AWAY"
    ELSE IF ContainsVs(game["MATCHUP"]) THEN "HOME"
    ELSE ""

\* app.py:139-146  the key the row is stored under: if home_team / elif away_team
Side(game) ==
    IF ContainsVs(game["MATCHUP"]) THEN "HOME"
    ELSE IF ContainsAt(game["MATCHUP"]) THEN "AWAY"
    ELSE ""

\* the position of game_id among the keys of combined_data, 0 if it is no key
RECURSIVE KeyIndex(_, _)
KeyIndex(cd, game_id) ==
    IF cd = <<>> THEN 0
    ELSE IF cd[Len(cd)].GAME_ID = game_id THEN Len(cd)
    ELSE KeyIndex(SubSeq(cd, 1, Len(cd) - 1), game_id)

\* app.py:131-146  the first loop; combined_data is a dict, which keeps its
\* keys in the order they were first set
RECURSIVE CollectGames(_, _)
CollectGames(rows, cd) ==
    IF rows = <<>> THEN cd
    ELSE LET game == Head(rows)
             game_id == game["GAME_ID"]
             cd1 == IF KeyIndex(cd, game_id) = 0
                    THEN Append(cd, [GAME_ID |-> game_id, HOME |-> EmptyDict, AWAY |-> EmptyDict])
                    ELSE cd
             k == KeyIndex(cd1, game_id)
             cd2 == IF Side(game) = "HOME" THEN [cd1 EXCEPT ![k].HOME = DictOf(game)]
                    ELSE IF Side(game) = "AWAY" THEN [cd1 EXCEPT ![k].AWAY = DictOf(game)]
                    ELSE cd1
         IN  CollectGames(Tail(rows), cd2)

\* app.py:153-209  combined_game_data of one game
CombinedGameData(entry) ==
    [key \in CombinedFields |->
        CASE key = "GAME_ID" -> entry.GAME_ID
          [] key = "GAME_DATE" -> Get(entry.HOME, "GAME_DATE", None)
          [] key = "SEASON_ID" -> Get(entry.HOME, "SEASON_ID", None)
          [] key = "MATCHUP" ->
                 Get(entry.AWAY, "TEAM_ABBREVIATION", "") \o " @ "
                     \o Get(entry.HOME, "TEAM_ABBREVIATION", "")
          [] OTHER ->
                 IF \E f \in SideFields : key = "HOME_" \o f
                 THEN Get(entry.HOME, CHOOSE f \in SideFields : key = "HOME_" \o f, None)
                 ELSE Get(entry.AWAY, CHOOSE f \in SideFields : key = "AWAY_" \o f, None)]

\* app.py:126-214  combine_game_data(data)
CombineGameData(rows) ==
    LET cd == CollectGames(rows, <<>>)
    IN  [k \in 1..Len(cd) |-> CombinedGameData(cd[k])]

NotCombined == [called |-> FALSE, games |-> <<>>]

GamesIdle ==
    /\ data = <<>>
    /\ combined = NotCombined

GamesInit ==
    /\ data \in GameLists
    /\ combined = NotCombined

\* app.py:120  combined_data = combine_game_data(games_list)
CallCombineGameData ==
    /\ ~combined.called
    /\ combined' = [called |-> TRUE, games |-> CombineGameData(data)]
    /\ UNCHANGED data
    /\ UNCHANGED nonGamesVars

-----------------------------------------------------------------------------

Init == ChartInit /\ TeamInit /\ ColorIdle /\ GamesIdle

\* lighten_color called on each colour spec and amount of the grid
InitColor == ChartInit /\ TeamInit /\ ColorInit /\ GamesIdle

SpecColor == InitColor /\ [][CallLightenColor]_vars

\* combine_game_data called on each games list
InitGames == ChartInit /\ TeamInit /\ ColorIdle /\ GamesInit

SpecGames == InitGames /\ [][CallCombineGameData]_vars

SpecTeam == Init /\ [][NextTeam]_vars

\* MaxParallel threads, each serving one request
Next ==
    \E r \in Requests :
        \/ r <= MaxParallel /\ Arrive(r, MaxParallel)
        \/ Fetch(r)
        \/ Handle(r)

Spec == Init /\ [][Next]_vars

\* one worker, serving MaxRequests requests one after the other
NextSeq == \E r \in Requests : Arrive(r, 1) \/ Fetch(r) \/ Handle(r)

SpecSeq == Init /\ [][NextSeq]_vars

\* one request, the provider answering with any frame of at most MaxShots rows
NextRender == Arrive(1, 1) \/ FetchAny(1) \/ Handle(1)

SpecRender == Init /\ [][NextRender]_vars

-----------------------------------------------------------------------------
(* Properties of /api/nba/shot_chart *)

\* the chart of a frame: the court, the missed markers, the made markers, and the
\* view generate_shot_chart leaves
ChartOf(rows) ==
    [facecolor |-> "transparent",
     patches |-> CourtElements,
     collections |->
         <<[marker |-> "x",
            points |-> Points(SelectSeq(rows, LAMBDA s : s.SHOT_MADE_FLAG = 0))],
           [marker |-> "o",
            points |-> Points(SelectSeq(rows, LAMBDA s : s.SHOT_MADE_FLAG = 1))]>>,
     xlim |-> <<-300, 300>>, xauto |-> FALSE, yinverted |-> TRUE, axison |-> FALSE]

MissingParameter(q) ==
    \E v \in {q.player_id, q.game_id_nullable, q.team_id, q.season_type_all_star} :
        v = None \/ v = ""

\* C1: a request with one of the four parameters absent or empty is answered
\* 400 "Missing required parameters" and fetches, draws and writes nothing; a
\* request with all four is never answered 400.
C1_MissingParameters400 ==
    [][\A r \in Requests :
          (pc[r] = "recv" /\ pc'[r] # "recv") =>
              IF MissingParameter(query[r])
              THEN /\ resp'[r] = Response(400, "Missing required parameters")
                   /\ pc'[r] = "done"
                   /\ upstream'[r] = NoCall
                   /\ fig'[r] = NoFigure
                   /\ UNCHANGED <<figs, curFig, files>>
              ELSE /\ resp'[r] = NoResponse
                   /\ pc'[r] = "fetch"]_vars
    /\ [](\A r \in Requests :
              resp[r].status = 400 => upstream[r] = NoCall /\ fig[r] = NoFigure)

C1_Witness ==
    \E r, r2 \in Requests :
        /\ resp[r] = Response(400, "Missing required parameters")
        /\ resp[r2].status = 200
        /\ files # NoFiles

\* C2: the body a request sends back is the chart of the rows of its own tuple
\* (playerId, gameId, teamId, seasonType), whatever the other requests do.
C2_OwnChartSent ==
    [][\A r \in Requests :
          (pc[r] = "send" /\ pc'[r] = "done") =>
              resp'[r] = Response(200, ChartOf(ShotData(args[r])))]_vars

\* C3: under sequential processing the file a request has saved is the chart of
\* its own frame: the court elements and its own markers, nothing of an earlier
\* request, and so the same for the same frame.
C3_SequentialRenderStateless ==
    \A r \in Requests :
        pc[r] = "send" =>
            /\ files[ShotChartFilename(args[r])] = ChartOf(frame[r])
            /\ figs[fig[r]].patches = CourtElements
            /\ Len(figs[fig[r]].collections) = 2

C3_Witness ==
    \E r, r1, r2 \in Requests :
        /\ pc[r] = "send"
        /\ resp[r1].status = 200
        /\ resp[r1].body # ChartOf(frame[r])
        /\ resp[r2].status = 500

SavedChart(r) == files[ShotChartFilename(args[r])]

\* C4 as amended: the saved view has the X axis from -300 (left) to 300 (right),
\* not mirrored, autoscaling off, and the Y axis inverted, whatever the
\* coordinates of the frame.
C4_SavedViewWindow ==
    \A r \in Requests :
        pc[r] = "send" =>
            /\ SavedChart(r).xlim = <<-300, 300>>
            /\ SavedChart(r).xauto = FALSE
            /\ SavedChart(r).yinverted = TRUE

\* C4 as stated: the saved view has the X axis mirrored (left limit 300, right
\* limit -300) and the Y axis inverted.
C4_SavedViewMirrored ==
    \A r \in Requests :
        pc[r] = "send" =>
            /\ SavedChart(r).xlim = <<300, -300>>
            /\ SavedChart(r).yinverted = TRUE

C4_Witness ==
    \E r \in Requests :
        /\ pc[r] = "send"
        /\ \E i \in DOMAIN frame[r] : frame[r][i].LOC_X > 300 /\ frame[r][i].LOC_Y > 423

Count(rows, row) == Cardinality({i \in DOMAIN rows : rows[i] = row})
Range(rows) == {rows[i] : i \in DOMAIN rows}

\* C5: made holds exactly the rows with flag 1 and missed exactly those with
\* flag 0; they are disjoint, |made| + |missed| <= N, with equality if and only
\* if no row has a flag outside {0, 1}.
C5_Partition ==
    \A r \in Requests :
        upstream[r].answer = "ok" /\ pc[r] # "done" =>
            /\ \A row \in ShotRows :
                   /\ Count(made[r], row) =
                          IF row.SHOT_MADE_FLAG = 1 THEN Count(frame[r], row) ELSE 0
                   /\ Count(missed[r], row) =
                          IF row.SHOT_MADE_FLAG = 0 THEN Count(frame[r], row) ELSE 0
            /\ Range(made[r]) \cap Range(missed[r]) = {}
            /\ Len(made[r]) + Len(missed[r]) <= Len(frame[r])
            /\ (Len(made[r]) + Len(missed[r]) = Len(frame[r]))
                   <=> (\A i \in DOMAIN frame[r] : frame[r][i].SHOT_MADE_FLAG \in {0, 1})

C5_Witness ==
    \E r \in Requests :
        /\ upstream[r].answer = "ok" /\ pc[r] # "done"
        /\ \E i \in DOMAIN frame[r] : frame[r][i].SHOT_MADE_FLAG \notin {0, 1}
        /\ Len(made[r]) + Len(missed[r]) = 1
        /\ Len(frame[r]) = 2

\* C6: a failed stats fetch ends the request with an unhandled error (500): no
\* figure is made, nothing is drawn, no file is written and the files there are
\* stay as they were.
C6_FetchFailureAborts ==
    [][\A r \in Requests :
          (upstream[r].answer = "none" /\ upstream'[r].answer = "error") =>
              /\ resp'[r] = Response(500, "Internal Server Error")
              /\ pc'[r] = "done"
              /\ fig'[r] = NoFigure
              /\ UNCHANGED <<figs, curFig, files>>]_vars
    /\ [](\A r \in Requests :
              upstream[r].answer = "error" =>
                  pc[r] = "done" /\ fig[r] = NoFigure /\ resp[r].status = 500)

C6_Witness ==
    \E r \in Requests :
        /\ upstream[r].answer = "error"
        /\ resp[r].status = 500
        /\ ShotChartFilename(upstream[r].params) \in DOMAIN files

-----------------------------------------------------------------------------
(* Properties of the team and logo endpoints *)

TeamNotFound == JsonError(404, "Team not found")

\* C7: on the team endpoint and on the logo endpoint the response is 404 with
\* {"error": "Team not found"} if and only if the lookup of the abbreviation
\* finds no team, and the logo endpoint then fetches nothing.
C7_UnknownTeam404 ==
    \A r \in TeamRequests :
        tpc[r] = "done" =>
            LET unknown == FindTeamByAbbreviation(treq[r].abbreviation) = NoTeam
            IN  /\ (tresp[r] = TeamNotFound) <=> unknown
                /\ (tresp[r].status = 404) <=> unknown
                /\ unknown => cdn[r] = NoReply /\ logoUrl[r] = "" /\ converted[r] = NotConverted

C7_Witness ==
    \E r1, r2 \in TeamRequests :
        /\ treq[r1].endpoint = "team" /\ tresp[r1] = TeamNotFound
        /\ treq[r2].endpoint = "logo" /\ tresp[r2] = TeamNotFound

FetchFailed(reply) == reply.kind = "ConnectionError" \/ reply.status \in 400..599

\* C8: for a known team the logo endpoint answers by the first failing step:
\* a failed fetch gives a 500 JSON error and nothing is converted, a failed
\* conversion gives a 500 JSON error, PNG bytes are sent only when both
\* succeeded, and no request ends in an unhandled error.
C8_LogoFirstFailingStep ==
    \A r \in TeamRequests :
        (/\ tpc[r] = "done"
         /\ treq[r].endpoint = "logo"
         /\ FindTeamByAbbreviation(treq[r].abbreviation) # NoTeam) =>
            /\ cdn[r] # NoReply
            /\ FetchFailed(cdn[r]) =>
                   /\ tresp[r] = JsonError(500, "Error fetching logo")
                   /\ converted[r] = NotConverted
            /\ (~FetchFailed(cdn[r]) /\ ~IsSvg(cdn[r].text)) =>
                   /\ tresp[r] = JsonError(500, "Error converting SVG to PNG")
                   /\ converted[r] = cdn[r].text
            /\ (tresp[r].mimetype = "image/png") <=>
                   (~FetchFailed(cdn[r]) /\ IsSvg(cdn[r].text) /\ tresp[r].status = 200)
            /\ tresp[r].mimetype \in {"image/png", "application/json"}
            /\ tresp[r].status \in {200, 500}

C8_Witness ==
    \E r1, r2 \in TeamRequests :
        /\ tpc[r1] = "done" /\ treq[r1].endpoint = "logo"
        /\ cdn[r1].kind = "response" /\ cdn[r1].status = 503 /\ IsSvg(cdn[r1].text)
        /\ tresp[r1].status = 500
        /\ tpc[r2] = "done" /\ treq[r2].endpoint = "logo"
        /\ cdn[r2].status = 200 /\ ~IsSvg(cdn[r2].text)
        /\ tresp[r2].status = 500

-----------------------------------------------------------------------------
(* Properties of lighten_color *)

Lightness(rgb) ==
    Div(Add(Max2(rgb[1], Max2(rgb[2], rgb[3])), Min2(rgb[1], Min2(rgb[2], rgb[3]))), Whole(2))

Called == lightened # NotCalled

\* the colour spec is one matplotlib resolves: a known name, or a triple in range
Resolves == ToRgb(colorSpec).ok

InputRgb == ToRgb(colorSpec).value
InputHls == RgbToHls(InputRgb[1], InputRgb[2], InputRgb[3]).value
OutputHls == RgbToHls(lightened.value[1], lightened.value[2], lightened.value[3]).value

ClaimedLightness == Sub(Whole(1), Mul(amount, Sub(Whole(1), Lightness(InputRgb))))

\* C9 as stated: every call returns a triple, of lightness
\* 1 - amount*(1 - L) and the hue and saturation of the input; amount = 0
\* leaves the lightness unchanged and amount = 1 gives lightness 1.
C9_LightenColorAsStated ==
    Called =>
        /\ lightened.ok
        /\ Resolves =>
               /\ Lightness(lightened.value) = ClaimedLightness
               /\ OutputHls[1] = InputHls[1]
               /\ OutputHls[3] = InputHls[3]
               /\ amount = Whole(0) => Lightness(lightened.value) = Lightness(InputRgb)
               /\ amount = Whole(1) => Lightness(lightened.value) = Whole(1)

\* C9 as amended: on a colour spec that resolves the call returns a triple of
\* lightness 1 - amount*(1 - L), with the hue and saturation of the input unless
\* that lightness is 1 (white); amount = 1 returns the input colour and
\* amount = 0 returns white, lightness 1; an unknown name raises TypeError.
C9_LightenColor ==
    Called =>
        /\ Resolves =>
               /\ lightened.ok
               /\ Lightness(lightened.value) = ClaimedLightness
               /\ ClaimedLightness # Whole(1) =>
                      OutputHls[1] = InputHls[1] /\ OutputHls[3] = InputHls[3]
               /\ amount = Whole(1) => lightened.value = InputRgb
               /\ amount = Whole(0) =>
                      /\ Lightness(lightened.value) = Whole(1)
                      /\ lightened.value = <<Whole(1), Whole(1), Whole(1)>>
        /\ (colorSpec.kind = "name" /\ ~Resolves) => lightened = Raised("TypeError")

C9_Witness ==
    /\ Called
    /\ colorSpec = Name("Red")
    /\ amount = Whole(0)
    /\ lightened = Returned(<<Whole(1), Whole(1), Whole(1)>>)

-----------------------------------------------------------------------------
(* Properties of combine_game_data *)

Combined == combined.called

RowsOf(game_id) == {i \in DOMAIN data : data[i]["GAME_ID"] = game_id}
FirstRow(game_id) == CHOOSE i \in RowsOf(game_id) : \A j \in RowsOf(game_id) : i <= j

HomeRows(game_id) == {i \in RowsOf(game_id) : ContainsVs(data[i]["MATCHUP"])}
AwayRows(game_id) ==
    {i \in RowsOf(game_id) :
        ContainsAt(data[i]["MATCHUP"]) /\ ~ContainsVs(data[i]["MATCHUP"])}

Last(indices) == CHOOSE i \in indices : \A j \in indices : j <= i

\* the side's columns of a combined row come from the last of the rows, and are
\* null when there is none
SideFrom(out, prefix, indices) ==
    \A f \in SideFields :
        out[prefix \o f] = IF indices = {} THEN None ELSE data[Last(indices)][f]

\* C10: one combined row per distinct GAME_ID, in the order of first
\* appearance; HOME_* from the last row of the game whose MATCHUP holds "vs.",
\* AWAY_* from the last whose MATCHUP holds "@" and not "vs.", null without one.
C10_CombineGameData ==
    Combined =>
        /\ {combined.games[k]["GAME_ID"] : k \in DOMAIN combined.games}
               = {data[i]["GAME_ID"] : i \in DOMAIN data}
        /\ \A k, l \in DOMAIN combined.games :
               k < l => FirstRow(combined.games[k]["GAME_ID"]) < FirstRow(combined.games[l]["GAME_ID"])
        /\ \A k \in DOMAIN combined.games :
               /\ SideFrom(combined.games[k], "HOME_", HomeRows(combined.games[k]["GAME_ID"]))
               /\ SideFrom(combined.games[k], "AWAY_", AwayRows(combined.games[k]["GAME_ID"]))

C10_Witness ==
    /\ Combined
    /\ Len(data) = 3
    /\ Len(combined.games) = 2
    /\ \E i, j \in DOMAIN data :
           /\ i < j
           /\ data[i]["GAME_ID"] = data[j]["GAME_ID"]
           /\ data[i]["MATCHUP"] = "LAL vs. BOS"
           /\ data[j]["MATCHUP"] = "LAL vs. @ BOS"
           /\ data[i]["TEAM_ABBREVIATION"] # data[j]["TEAM_ABBREVIATION"]
           /\ combined.games[1]["HOME_PTS"] = data[j]["PTS"]
           /\ combined.games[1]["AWAY_PTS"] = None
    /\ combined.games[2]["HOME_PTS"] = None

=============================================================================
